---- MODULE Spec2Model ----
(***************************************************************************)
(* Model of WarmStartHelper (warmrestart/warmRestartHelper.cpp): the      *)
(* warm-restart FSM, the restoration snapshot, the refresh map and the    *)
(* reconciliation diff, together with the field-value comparators.        *)
(*                                                                         *)
(* Strings are sequences of character codes, so that size(), tokenize()   *)
(* and std::sort's lexicographic order are computed as the code does.     *)
(***************************************************************************)
EXTENDS Integers, Sequences, FiniteSets, TLC

VARIABLES
    m_state,              \* cached FSM state (WarmStart::WarmStartState)
    m_enabled,            \* cached enabled flag
    m_restorationVector,  \* snapshot: sequence of kfv records
    m_refreshMap,         \* key -> kfv record
    statusStore,          \* last state written by WarmStart::setWarmStartState
    issued,               \* external effects of the last call, in order
    lastCall,             \* the last call: name, result, m_state before it, argument
    enabledRet,           \* result of the latest isEnabled(), "never" before the first
    fault,                \* "none", or the assertion that aborted the process
    runSnap,              \* m_restorationVector when the last reconcile() began
    runMap,               \* m_refreshMap when the last reconcile() began
    argS1, argS2,         \* arguments of a direct compareOneFV call
    retOneFV,             \* its result
    argV1, argV2,         \* arguments of a direct compareAllFV call
    retAllFV,             \* its result
    warmStartConfig,      \* the configured warm-restart flag WarmStart::checkWarmStart reads
    insertLog,            \* records given to insertRefreshMap since the map was last empty
    staleKeys             \* keys whose refresh record predates the latest isEnabled()

vars == <<m_state, m_enabled, m_restorationVector, m_refreshMap, statusStore,
          issued, lastCall, enabledRet, fault, runSnap, runMap,
          argS1, argS2, retOneFV, argV1, argV2, retAllFV,
          warmStartConfig, insertLog, staleKeys>>

helperVars == <<m_state, m_enabled, m_restorationVector, m_refreshMap,
                statusStore, issued, lastCall, enabledRet, fault, runSnap, runMap>>

fvVars == <<argS1, argS2, retOneFV, argV1, argV2, retAllFV>>

\* the environment and the bookkeeping of what was inserted when
envVars == <<warmStartConfig, insertLog, staleKeys>>

----------------------------------------------------------------------------
(* Bounds and universes *)

MaxLen == 3        \* longest value string given to compareOneFV directly
MaxInserts == 3    \* insertRefreshMap calls followed up to one reconcile()

Comma == 44        \* ','
Alphabet == {Comma, 97, 98}          \* ',', 'a', 'b'

Keys == {"k1", "k2"}

SET_COMMAND == "SET"
DEL_COMMAND == "DEL"

VAB == <<97, Comma, 98>>     \* "a,b"
VBA == <<98, Comma, 97>>     \* "b,a"
VAC == <<97, Comma>>         \* "a,"
VCA == <<Comma, 97>>         \* ",a"
VC  == <<99>>                \* "c"

WarmStartStates == {"INITIALIZED", "RESTORED", "RECONCILED"}

\* field-value vectors the restoration table returns for a key
RestoredFVs ==
    { << <<"f", VAB>> >>,
      << <<"f", VAC>> >>,
      << <<"f", VAB>>, <<"g", VC>> >> }

\* field-value vectors an application hands to insertRefreshMap with a SET
RefreshedFVs ==
    { << <<"f", VAB>> >>,
      << <<"f", VBA>> >>,
      << <<"f", VCA>> >>,
      << <<"g", VC>> >>,
      << <<"f", VBA>>, <<"g", VC>> >>,
      << <<"f", VCA>>, <<"g", VC>> >>,
      << <<"g", VC>>, <<"f", VCA>> >> }

\* field-value vectors it hands over with a DEL
DeletedFVs == { <<>>, << <<"f", VAB>> >> }

kfv(key, op, fv) == [key |-> key, op |-> op, fv |-> fv]
kfvKey(r) == r.key
\* every record found is read as an explicit delete
kfvOp_del(r) == DEL_COMMAND

kfvOp(r) == r.op
kfvFieldsValues(r) == r.fv
fvField(t) == t[1]
fvValue(t) == t[2]

RefreshRecords ==
    {kfv(k, SET_COMMAND, fv) : k \in Keys, fv \in RefreshedFVs}
    \cup {kfv(k, DEL_COMMAND, fv) : k \in Keys, fv \in DeletedFVs}

\* Table::getContent fills in the key and the fields; the operation is left empty
RestoredRecords == {kfv(k, "", fv) : k \in Keys, fv \in RestoredFVs}

\* contents the restoration table can return: one record per stored key
SnapshotsOfLen(n) ==
    {s \in [1..n -> RestoredRecords] :
        \A i \in 1..n : \A j \in 1..n : i # j => kfvKey(s[i]) # kfvKey(s[j])}
Snapshots == UNION {SnapshotsOfLen(n) : n \in 0..Cardinality(Keys)}

\* value strings for a direct comparator call
Strings == UNION {[1..n -> Alphabet] : n \in 0..MaxLen}

----------------------------------------------------------------------------
(* tokenize(str, token): a std::getline loop, so a final empty piece (an   *)
(* empty string, or the piece after a trailing delimiter) yields no token. *)

RECURSIVE tokenizeFrom(_, _, _, _)
tokenizeFrom(str, token, i, tmp) ==
    IF i > Len(str)
    THEN IF tmp = <<>> THEN <<>> ELSE <<tmp>>
    ELSE IF str[i] = token
         THEN <<tmp>> \o tokenizeFrom(str, token, i + 1, <<>>)
         ELSE tokenizeFrom(str, token, i + 1, Append(tmp, str[i]))

tokenize(str, token) == tokenizeFrom(str, token, 1, <<>>)

\* std::string operator< : lexicographic on character codes
RECURSIVE StrLess(_, _)
StrLess(a, b) ==
    IF b = <<>> THEN FALSE
    ELSE IF a = <<>> THEN TRUE
    ELSE IF a[1] < b[1] THEN TRUE
    ELSE IF b[1] < a[1] THEN FALSE
    ELSE StrLess(Tail(a), Tail(b))

\* std::sort of a vector of strings
RECURSIVE InsertSorted(_, _)
InsertSorted(x, sorted) ==
    IF sorted = <<>> THEN <<x>>
    ELSE IF StrLess(sorted[1], x)
         THEN <<sorted[1]>> \o InsertSorted(x, Tail(sorted))
         ELSE <<x>> \o sorted

RECURSIVE SortStrings(_)
SortStrings(v) ==
    IF v = <<>> THEN <<>> ELSE InsertSorted(v[1], SortStrings(Tail(v)))

\* TRUE: no full match; FALSE: both strings match
compareOneFV(s1, s2) ==
    IF Len(s1) # Len(s2) THEN TRUE
    ELSE LET splitValuesS1 == tokenize(s1, Comma)
             splitValuesS2 == tokenize(s2, Comma)
         IN IF Len(splitValuesS1) # Len(splitValuesS2) THEN TRUE
            ELSE LET sorted1 == SortStrings(splitValuesS1)
                     sorted2 == SortStrings(splitValuesS2)
                 IN \E i \in 1..Len(sorted1) : sorted1[i] # sorted2[i]

\* the unordered_map built from v1: field -> value
v1MapOf(v1) ==
    [fld \in {fvField(v1[i]) : i \in 1..Len(v1)} |->
        LET i == CHOOSE j \in 1..Len(v1) :
                    /\ fvField(v1[j]) = fld
                    /\ \A h \in 1..(j - 1) : fvField(v1[h]) # fld
        IN fvValue(v1[i])]

\* "assert": the assertion fails; "true": no full match; "false": full match
RECURSIVE compareAllFVFrom(_, _, _)
compareAllFVFrom(v1Map, v2, i) ==
    IF i > Len(v2) THEN "false"
    ELSE IF fvField(v2[i]) \notin DOMAIN v1Map THEN "assert"
    ELSE IF compareOneFV(v1Map[fvField(v2[i])], fvValue(v2[i])) THEN "true"
    ELSE compareAllFVFrom(v1Map, v2, i + 1)

\* every field of v2 is looked up before any value is compared
compareAllFV_assertAny(v1, v2) ==
    IF \E i \in 1..Len(v2) : fvField(v2[i]) \notin DOMAIN v1MapOf(v1)
    THEN "assert"
    ELSE compareAllFVFrom(v1MapOf(v1), v2, 1)

compareAllFV(v1, v2) == compareAllFVFrom(v1MapOf(v1), v2, 1)

----------------------------------------------------------------------------
(* External effects: calls on the synchronized table and the status store *)

SetOp(key, fv) == [type |-> "set", key |-> key, fv |-> fv]
DelOp(key) == [type |-> "del", key |-> key]
ClearOp == [type |-> "clear"]
StateWrite(state) == [type |-> "setWarmStartState", state |-> state]

EmptyMap == [k \in {} |-> kfv(k, SET_COMMAND, <<>>)]
\* an erase that is forgotten
MapErase_none(map, key) == map

MapErase(map, key) == [k \in (DOMAIN map) \ {key} |-> map[k]]
\* a record is kept once its key is in the map
MapPut_keepFirst(map, key, rec) ==
    [k \in (DOMAIN map) \cup {key} |-> IF k \in DOMAIN map THEN map[k] ELSE rec]

\* the map is assigned the one record
MapPut_dropOthers(map, key, rec) == [k \in {key} |-> rec]

MapPut(map, key, rec) ==
    [k \in (DOMAIN map) \cup {key} |-> IF k = key THEN rec ELSE map[k]]

\* the assertion in compareAllFV rolls back what reconcile() had issued
abortResult_rollback(ops, map) == [ops |-> <<>>, map |-> map, assertFailed |-> TRUE]

\* the assertion aborts the process: what was issued so far stays issued
abortResult(ops, map) == [ops |-> ops, map |-> map, assertFailed |-> TRUE]

\* the loop over m_restorationVector, from record i on
RECURSIVE reconcileRestored(_, _, _, _)
reconcileRestored(vec, map, i, ops) ==
    IF i > Len(vec) THEN [ops |-> ops, map |-> map, assertFailed |-> FALSE]
    ELSE LET restoredKey == kfvKey(vec[i])
             restoredFV == kfvFieldsValues(vec[i])
         IN IF restoredKey \notin DOMAIN map
            THEN reconcileRestored(vec, map, i + 1, Append(ops, DelOp(restoredKey)))
            ELSE IF kfvOp(map[restoredKey]) = DEL_COMMAND
            THEN reconcileRestored(vec, MapErase(map, restoredKey), i + 1,
                                   Append(ops, DelOp(restoredKey)))
            ELSE LET refreshedKey == kfvKey(map[restoredKey])
                     refreshedFV == kfvFieldsValues(map[restoredKey])
                     cmp == compareAllFV(restoredFV, refreshedFV)
                 IN IF cmp = "assert"
                    THEN abortResult(ops, map)
                    ELSE IF cmp = "true"
                    THEN reconcileRestored(vec, MapErase(map, restoredKey), i + 1,
                                           Append(ops, SetOp(refreshedKey, refreshedFV)))
                    ELSE reconcileRestored(vec, MapErase(map, restoredKey), i + 1, ops)

\* the orders in which the loop over the remaining m_refreshMap may visit it
IterationOrders(map) ==
    {o \in [1..Cardinality(DOMAIN map) -> DOMAIN map] :
        \A i \in DOMAIN o : \A j \in DOMAIN o : i # j => o[i] # o[j]}

\* the loop over what is left in m_refreshMap
reconcileNew(map, order) ==
    [i \in 1..Len(order) |->
        SetOp(kfvKey(map[order[i]]), kfvFieldsValues(map[order[i]]))]

----------------------------------------------------------------------------
(* The helper *)

\* the members after construction; m_state and m_enabled are not initialised
InitHelper ==
    /\ m_restorationVector = <<>>
    /\ m_refreshMap = EmptyMap
    /\ statusStore = "NONE"
    /\ issued = <<>>
    /\ lastCall = [name |-> "WarmStartHelper", ret |-> "void", from |-> "NONE",
                   arg |-> "void"]
    /\ enabledRet = "never"
    /\ fault = "none"
    /\ runSnap = <<>>
    /\ runMap = EmptyMap
    /\ warmStartConfig = FALSE
    /\ insertLog = <<>>
    /\ staleKeys = {}

NoDirectCall ==
    /\ argS1 = <<>>
    /\ argS2 = <<>>
    /\ retOneFV = "none"
    /\ argV1 = <<>>
    /\ argV2 = <<>>
    /\ retAllFV = "none"

Init ==
    /\ m_state \in WarmStartStates \cup {"INDETERMINATE"}
    /\ m_enabled \in BOOLEAN
    /\ InitHelper
    /\ NoDirectCall

\* the two assertions that abort the process
OrderFault == "reconcile: assert(getState() == RESTORED)"
SchemaFault == "compareAllFV: assert(v1Iter != v1Map.end())"

\* the status store is written, the cached member is not
setState_noCache(state) ==
    /\ statusStore' = state
    /\ UNCHANGED m_state

setState(state) ==
    /\ statusStore' = state
    /\ m_state' = state

\* the precondition of reconcile() sees RESTORED whatever the state
getState_stale == "RESTORED"

getState == m_state
isReconciled == (m_state = "RECONCILED")

\* the cached flag is left out
inProgress_noFlag == (m_state # "RECONCILED")

\* the configuration is read again instead of the cached flag
inProgress_readsConfig == (warmStartConfig /\ m_state # "RECONCILED")

inProgress == (m_enabled /\ m_state # "RECONCILED")

\* the records are appended to what tuples held
getContent_append(tuples, content) == tuples \o content

\* Table::getContent(tuples): tuples is cleared, then filled with the content
getContent(tuples, content) == content

Called(name, ret, arg) ==
    lastCall' = [name |-> name, ret |-> ret, from |-> m_state, arg |-> arg]

\* the table is cleared before the state is written
enabledEffects_clearFirst == <<ClearOp, StateWrite("INITIALIZED")>>

\* what isEnabled() does outside the helper when warm restart is enabled
enabledEffects == <<StateWrite("INITIALIZED"), ClearOp>>

\* isEnabled() when WarmStart::checkWarmStart returns enabled
isEnabledStep(enabled) ==
    /\ fault = "none"
    /\ IF enabled
       THEN /\ setState("INITIALIZED")
            /\ issued' = enabledEffects
       ELSE /\ UNCHANGED <<m_state, statusStore>>
            /\ issued' = <<>>
    /\ m_enabled' = enabled
    /\ enabledRet' = IF enabled THEN "true" ELSE "false"
    /\ Called("isEnabled", enabled, "void")
    /\ runSnap' = <<>>
    /\ runMap' = EmptyMap
    /\ UNCHANGED <<m_restorationVector, m_refreshMap, fault>>

\* runRestoration() when the restoration table holds one of contents
runRestorationFrom(contents) ==
    /\ fault = "none"
    /\ \E content \in contents :
        /\ m_restorationVector' = getContent(m_restorationVector, content)
        /\ IF Len(m_restorationVector') = 0
           THEN /\ setState("RECONCILED")
                /\ issued' = <<StateWrite("RECONCILED")>>
                /\ Called("runRestoration", FALSE, content)
           ELSE /\ setState("RESTORED")
                /\ issued' = <<StateWrite("RESTORED")>>
                /\ Called("runRestoration", TRUE, content)
    /\ runSnap' = <<>>
    /\ runMap' = EmptyMap
    /\ UNCHANGED <<m_enabled, m_refreshMap, enabledRet, fault>>

\* insertRefreshMap(rec)
insertRecord(rec) ==
    /\ fault = "none"
    /\ m_refreshMap' = MapPut(m_refreshMap, kfvKey(rec), rec)
    /\ Called("insertRefreshMap", "void", rec)
    /\ issued' = <<>>
    /\ runSnap' = <<>>
    /\ runMap' = EmptyMap
    /\ UNCHANGED <<m_state, m_enabled, m_restorationVector, statusStore, enabledRet,
                   fault>>

\* reconcile() as a whole
reconcileStep ==
    /\ fault = "none"
    /\ runSnap' = m_restorationVector
    /\ runMap' = m_refreshMap
    /\ Called("reconcile", "void", "void")
    /\ IF getState # "RESTORED"
       THEN /\ fault' = OrderFault
            /\ issued' = <<>>
            /\ UNCHANGED <<m_state, m_enabled, m_restorationVector, m_refreshMap,
                           statusStore>>
       ELSE LET r == reconcileRestored(m_restorationVector, m_refreshMap, 1, <<>>)
            IN IF r.assertFailed
               THEN /\ fault' = SchemaFault
                    /\ issued' = r.ops
                    /\ m_refreshMap' = r.map
                    /\ UNCHANGED <<m_state, m_enabled, m_restorationVector, statusStore>>
               ELSE /\ \E order \in IterationOrders(r.map) :
                         issued' = r.ops \o reconcileNew(r.map, order)
                                         \o <<StateWrite("RECONCILED")>>
                    /\ m_refreshMap' = EmptyMap
                    /\ m_restorationVector' = <<>>
                    /\ setState("RECONCILED")
                    /\ UNCHANGED <<m_enabled, fault>>
    /\ UNCHANGED enabledRet

isEnabled ==
    /\ \E enabled \in BOOLEAN :
          /\ warmStartConfig' = enabled
          /\ isEnabledStep(enabled)
    /\ UNCHANGED <<insertLog, staleKeys, fvVars>>

runRestoration ==
    /\ runRestorationFrom(Snapshots)
    /\ UNCHANGED <<envVars, fvVars>>

insertRefreshMap ==
    /\ \E rec \in RefreshRecords : insertRecord(rec)
    /\ UNCHANGED <<envVars, fvVars>>

reconcile ==
    /\ reconcileStep
    /\ UNCHANGED <<envVars, fvVars>>

Next ==
    \/ isEnabled
    \/ runRestoration
    \/ insertRefreshMap
    \/ reconcile

Spec == Init /\ [][Next]_vars

----------------------------------------------------------------------------
(* Direct calls of the value comparator *)

InitFV ==
    /\ m_state = "INDETERMINATE"
    /\ m_enabled = FALSE
    /\ InitHelper
    /\ argS1 \in Strings
    /\ argS2 \in Strings
    /\ retOneFV = "none"
    /\ argV1 = <<>>
    /\ argV2 = <<>>
    /\ retAllFV = "none"

callCompareOneFV ==
    /\ retOneFV = "none"
    /\ retOneFV' = IF compareOneFV(argS1, argS2) THEN "true" ELSE "false"
    /\ UNCHANGED <<argS1, argS2, argV1, argV2, retAllFV, helperVars, envVars>>

NextFV == callCompareOneFV

SpecFV == InitFV /\ [][NextFV]_vars

----------------------------------------------------------------------------
(* Direct calls of the record comparator *)

\* field-value vectors over the fields f and g, each field at most once
DirectValues == {VAB, VBA, VAC, VCA, VC}
DirectFVs ==
    {<<>>}
    \cup {<< <<fld, val>> >> : fld \in {"f", "g"}, val \in DirectValues}
    \cup {<< <<"f", val1>>, <<"g", val2>> >> : val1 \in DirectValues, val2 \in DirectValues}
    \cup {<< <<"g", val1>>, <<"f", val2>> >> : val1 \in DirectValues, val2 \in DirectValues}

InitAllFV ==
    /\ m_state = "INDETERMINATE"
    /\ m_enabled = FALSE
    /\ InitHelper
    /\ argS1 = <<>>
    /\ argS2 = <<>>
    /\ retOneFV = "none"
    /\ argV1 \in DirectFVs
    /\ argV2 \in DirectFVs
    /\ retAllFV = "none"

callCompareAllFV ==
    /\ retAllFV = "none"
    /\ retAllFV' = compareAllFV(argV1, argV2)
    /\ UNCHANGED <<argS1, argS2, retOneFV, argV1, argV2, helperVars, envVars>>

NextAllFV == callCompareAllFV

SpecAllFV == InitAllFV /\ [][NextAllFV]_vars

----------------------------------------------------------------------------
(* Every public method, with the configuration changing under the helper *)

ApiSnapshots == {s \in Snapshots : Len(s) <= 1}
ApiRecords ==
    {r \in RefreshRecords :
        kfvFieldsValues(r) \in {<<>>, << <<"f", VBA>> >>, << <<"g", VC>> >>}}
RestartTimers == {0, 120}

\* a const query: nothing but its result
Query(name, ret) ==
    /\ fault = "none"
    /\ Called(name, ret, "void")
    /\ issued' = <<>>
    /\ runSnap' = <<>>
    /\ runMap' = EmptyMap
    /\ UNCHANGED <<m_state, m_enabled, m_restorationVector, m_refreshMap, statusStore,
                   enabledRet, fault, envVars, fvVars>>

callGetState == Query("getState", getState)
callIsReconciled == Query("isReconciled", isReconciled)
callInProgress == Query("inProgress", inProgress)
callGetRestartTimer == \E timer \in RestartTimers : Query("getRestartTimer", timer)

\* setState(state) called directly
callSetState ==
    /\ fault = "none"
    /\ \E state \in WarmStartStates :
          /\ setState(state)
          /\ issued' = <<StateWrite(state)>>
          /\ Called("setState", "void", state)
    /\ runSnap' = <<>>
    /\ runMap' = EmptyMap
    /\ UNCHANGED <<m_enabled, m_restorationVector, m_refreshMap, enabledRet, fault,
                   envVars, fvVars>>

\* the operator changes the configured flag
configChanges ==
    /\ warmStartConfig' = ~warmStartConfig
    /\ UNCHANGED <<m_state, m_enabled, m_restorationVector, m_refreshMap, statusStore,
                   issued, lastCall, enabledRet, fault, runSnap, runMap,
                   insertLog, staleKeys, fvVars>>

\* isEnabled() reading the flag as configured
apiIsEnabled ==
    /\ isEnabledStep(warmStartConfig)
    /\ UNCHANGED <<envVars, fvVars>>

apiRunRestoration ==
    /\ runRestorationFrom(ApiSnapshots)
    /\ UNCHANGED <<envVars, fvVars>>

apiInsertRefreshMap ==
    /\ \E rec \in ApiRecords : insertRecord(rec)
    /\ UNCHANGED <<envVars, fvVars>>

NextAPI ==
    \/ configChanges
    \/ apiIsEnabled
    \/ apiRunRestoration
    \/ apiInsertRefreshMap
    \/ reconcile
    \/ callSetState
    \/ callGetState
    \/ callIsReconciled
    \/ callInProgress
    \/ callGetRestartTimer

SpecAPI == Init /\ [][NextAPI]_vars

----------------------------------------------------------------------------
(* The records handed to insertRefreshMap since the refresh map was last empty *)

lwwInsertRefreshMap ==
    /\ Len(insertLog) < MaxInserts
    /\ \E rec \in ApiRecords :
          /\ insertRecord(rec)
          /\ insertLog' = Append(insertLog, rec)
    /\ UNCHANGED <<warmStartConfig, staleKeys, fvVars>>

lwwReconcile ==
    /\ reconcileStep
    /\ insertLog' = IF fault' = "none" THEN <<>> ELSE insertLog
    /\ UNCHANGED <<warmStartConfig, staleKeys, fvVars>>

NextLWW ==
    \/ isEnabled
    \/ apiRunRestoration
    \/ lwwInsertRefreshMap
    \/ lwwReconcile

SpecLWW == Init /\ [][NextLWW]_vars

----------------------------------------------------------------------------
(* Cycles: insertLog holds the records inserted since the last isEnabled() that
   returned true, staleKeys the keys whose record in the refresh map was
   inserted before it *)

cycIsEnabled ==
    /\ \E enabled \in BOOLEAN :
          /\ warmStartConfig' = enabled
          /\ isEnabledStep(enabled)
          /\ IF enabled
             THEN /\ staleKeys' =
                        (staleKeys \cup {kfvKey(insertLog[i]) : i \in 1..Len(insertLog)})
                            \cap DOMAIN m_refreshMap
                  /\ insertLog' = <<>>
             ELSE UNCHANGED <<staleKeys, insertLog>>
    /\ UNCHANGED fvVars

cycInsertRefreshMap ==
    /\ \E rec \in ApiRecords :
          /\ insertRecord(rec)
          /\ staleKeys' = staleKeys \ {kfvKey(rec)}
          /\ insertLog' =
                IF enabledRet = "true"
                THEN Append(SelectSeq(insertLog, LAMBDA r : kfvKey(r) # kfvKey(rec)), rec)
                ELSE insertLog
    /\ UNCHANGED <<warmStartConfig, fvVars>>

NextCycle ==
    \/ cycIsEnabled
    \/ apiRunRestoration
    \/ cycInsertRefreshMap
    \/ reconcile

SpecCycle == Init /\ [][NextCycle]_vars

----------------------------------------------------------------------------
(* Vocabulary of the properties *)

IsSinkOp(e) == e.type \in {"set", "del", "clear"}
SinkOps(evs) == SelectSeq(evs, IsSinkOp)
OpsOn(evs, k) ==
    SelectSeq(evs, LAMBDA e : e.type \in {"set", "del"} /\ e.key = k)
HasOp(evs, type, k) ==
    \E i \in 1..Len(evs) : evs[i].type = type /\ evs[i].key = k

SnapKeys(snap) == {kfvKey(snap[i]) : i \in 1..Len(snap)}
SnapFV(snap, k) ==
    kfvFieldsValues(snap[CHOOSE i \in 1..Len(snap) : kfvKey(snap[i]) = k])

\* a value split on ',' with every piece kept, empty ones included
RECURSIVE CommaPiecesFrom(_, _, _)
CommaPiecesFrom(s, i, piece) ==
    IF i > Len(s) THEN <<piece>>
    ELSE IF s[i] = 44
         THEN <<piece>> \o CommaPiecesFrom(s, i + 1, <<>>)
         ELSE CommaPiecesFrom(s, i + 1, Append(piece, s[i]))
CommaPieces(s) == CommaPiecesFrom(s, 1, <<>>)

CountOf(seq, t) == Cardinality({i \in 1..Len(seq) : seq[i] = t})

\* the comma-token multiset rule
SameTokenMultiset(s1, s2) ==
    LET p1 == CommaPieces(s1)
        p2 == CommaPieces(s2)
    IN /\ Len(p1) = Len(p2)
       /\ \A i \in 1..Len(p1) : CountOf(p1, p1[i]) = CountOf(p2, p1[i])

FieldNames(fv) == {fv[i][1] : i \in 1..Len(fv)}
ValueOf(fv, fld) == fv[CHOOSE i \in 1..Len(fv) : fv[i][1] = fld][2]

\* same field names, and field by field the same token multiset
FieldsEquivalent(fv1, fv2) ==
    /\ FieldNames(fv1) = FieldNames(fv2)
    /\ \A fld \in FieldNames(fv1) :
          SameTokenMultiset(ValueOf(fv1, fld), ValueOf(fv2, fld))

\* the synchronized table as key -> fields, and the effect of set and del on it
TableOfSnapshot(snap) == [k \in SnapKeys(snap) |-> SnapFV(snap, k)]
ApplyOp(table, op) ==
    IF op.type = "set"
    THEN [k \in (DOMAIN table) \cup {op.key} |->
             IF k = op.key THEN op.fv ELSE table[k]]
    ELSE IF op.type = "del"
    THEN [k \in (DOMAIN table) \ {op.key} |-> table[k]]
    ELSE [k \in {} |-> <<>>]
RECURSIVE ApplyOps(_, _)
ApplyOps(table, ops) ==
    IF ops = <<>> THEN table ELSE ApplyOps(ApplyOp(table, ops[1]), Tail(ops))

ReconcileCalled == lastCall.name = "reconcile"
ReconcileCompleted == ReconcileCalled /\ fault = "none"

----------------------------------------------------------------------------
(* C1..C10 *)

\* a reconcile() call in a cycle that isEnabled() opened
CycleReconcileCalled == ReconcileCalled /\ enabledRet = "true"

\* C1: when reconcile() completes, the snapshot with the issued set/del
\* operations applied in order has exactly the keys whose refresh record is a
\* SET, each with fields equivalent to that record's fields.
C1_TableMatchesRefreshedView ==
    (CycleReconcileCalled /\ fault = "none") =>
        LET table == ApplyOps(TableOfSnapshot(runSnap), SinkOps(issued))
        IN /\ DOMAIN table = {k \in DOMAIN runMap : runMap[k].op = "SET"}
           /\ \A k \in DOMAIN table : FieldsEquivalent(table[k], runMap[k].fv)

\* C2: a key whose refresh record is a DELETE is never the key of a set issued
\* by reconcile(), whether or not the snapshot holds it.
C2_ExplicitDeleteNeverSet ==
    CycleReconcileCalled =>
        \A k \in DOMAIN runMap :
            runMap[k].op = "DEL" => ~HasOp(issued, "set", k)

\* the decision for key k as a function of the snapshot and the refresh map
DecisionOps(k, snap, map) ==
    IF k \in SnapKeys(snap)
    THEN IF k \notin DOMAIN map THEN <<DelOp(k)>>
         ELSE IF map[k].op = "DEL" THEN <<DelOp(k)>>
         ELSE IF compareAllFV(SnapFV(snap, k), map[k].fv) = "true"
              THEN <<SetOp(k, map[k].fv)>>
              ELSE <<>>
    ELSE <<SetOp(k, map[k].fv)>>

\* C3: one reconcile() run issues at most one operation per key, only for keys
\* of the snapshot or the refresh map, and a completed run issues for each key
\* exactly what the snapshot and the refresh map decide.
C3_OneDecisionPerKey ==
    ReconcileCalled =>
        /\ \A k \in Keys : Len(OpsOn(issued, k)) <= 1
        /\ \A i \in 1..Len(issued) :
              issued[i].type \in {"set", "del"} =>
                  issued[i].key \in SnapKeys(runSnap) \cup DOMAIN runMap
        /\ fault = "none" =>
              \A k \in SnapKeys(runSnap) \cup DOMAIN runMap :
                  OpsOn(issued, k) = DecisionOps(k, runSnap, runMap)

\* a completed run that deleted one key and set another
C3_Witness ==
    /\ ReconcileCompleted
    /\ \E k1 \in Keys : \E k2 \in Keys :
          /\ k1 # k2
          /\ HasOp(SinkOps(issued), "del", k1)
          /\ HasOp(SinkOps(issued), "set", k2)

\* C4: a run that compares a restored record with a SET refresh record lacking
\* one of the restored fields ends in the schema fault.
C4_MissingFieldFaults ==
    ( /\ CycleReconcileCalled
      /\ fault # OrderFault
      /\ \E i \in 1..Len(runSnap) :
            /\ kfvKey(runSnap[i]) \in DOMAIN runMap
            /\ runMap[kfvKey(runSnap[i])].op = "SET"
            /\ ~(FieldNames(runSnap[i].fv) \subseteq
                    FieldNames(runMap[kfvKey(runSnap[i])].fv)) )
    => fault = SchemaFault

C6_NoEmptyWindow ==
    ReconcileCalled =>
        /\ \A i \in 1..Len(issued) : issued[i].type # "clear"
        /\ \A k \in SnapKeys(runSnap) :
              (k \in DOMAIN runMap /\ runMap[k].op = "SET") =>
                  /\ ~HasOp(SinkOps(issued), "del", k)
                  /\ Len(OpsOn(issued, k)) <= 1
                  /\ \A n \in 0..Len(SinkOps(issued)) :
                        k \in DOMAIN ApplyOps(TableOfSnapshot(runSnap),
                                              SubSeq(SinkOps(issued), 1, n))

\* a completed run that deleted one snapshot key and overwrote another
C6_Witness ==
    /\ ReconcileCompleted
    /\ \E k1 \in SnapKeys(runSnap) : \E k2 \in SnapKeys(runSnap) :
          /\ k1 # k2
          /\ HasOp(SinkOps(issued), "del", k1)
          /\ k2 \in DOMAIN runMap
          /\ runMap[k2].op = "SET"
          /\ HasOp(SinkOps(issued), "set", k2)

\* C7: when the refresh map holds, for exactly the snapshot keys, SET records
\* with the same field names and values equal under the multiset rule,
\* reconcile() issues no set and no del and ends in RECONCILED.
C7_Idempotence ==
    ( /\ CycleReconcileCalled
      /\ lastCall.from = "RESTORED"
      /\ DOMAIN runMap = SnapKeys(runSnap)
      /\ \A k \in DOMAIN runMap :
            /\ runMap[k].op = "SET"
            /\ FieldsEquivalent(SnapFV(runSnap, k), runMap[k].fv) )
    => (SinkOps(issued) = <<>> /\ m_state = "RECONCILED")

\* C8: compareOneFV(s1, s2) returns false exactly when s1 and s2 split on ','
\* give the same multiset of tokens.
C8_MultisetLaw ==
    retOneFV # "none" =>
        ((retOneFV = "false") <=> SameTokenMultiset(argS1, argS2))

\* C9: runRestoration() returns false with the state RECONCILED exactly when
\* the restoration source returned no record, true with the state RESTORED
\* otherwise, and issues nothing to the synchronized table.
C9_RestorationOutcome ==
    lastCall.name = "runRestoration" =>
        /\ (lastCall.ret = FALSE /\ m_state = "RECONCILED") <=> (Len(lastCall.arg) = 0)
        /\ (lastCall.ret = TRUE /\ m_state = "RESTORED") <=> (Len(lastCall.arg) # 0)
        /\ statusStore = m_state
        /\ SinkOps(issued) = <<>>

\* an empty restoration right after isEnabled(): RECONCILED with no refresh
\* record inserted and no reconcile() run
C9_Witness ==
    /\ lastCall.name = "runRestoration"
    /\ lastCall.from = "INITIALIZED"
    /\ lastCall.ret = FALSE
    /\ m_state = "RECONCILED"
    /\ DOMAIN m_refreshMap = {}

Rank(state) ==
    CASE state = "INITIALIZED" -> 1
      [] state = "RESTORED" -> 2
      [] state = "RECONCILED" -> 3
      [] OTHER -> 0

\* C10 as stated: in a cycle opened by isEnabled(), no runRestoration,
\* insertRefreshMap or reconcile call moves the state backwards.
C10_Monotonic ==
    [][ ( /\ enabledRet = "true"
          /\ lastCall'.name \in {"runRestoration", "insertRefreshMap", "reconcile"} )
        => Rank(m_state') >= Rank(m_state) ]_vars

\* C10: insertRefreshMap and reconcile never move the state backwards in the
\* order INITIALIZED, RESTORED, RECONCILED, and runRestoration sets it from the
\* restoration content alone: RECONCILED for no record, RESTORED otherwise,
\* also when the state was RECONCILED.
C10_MonotonicButRestoration ==
    [][ /\ lastCall'.name \in {"insertRefreshMap", "reconcile"} =>
              Rank(m_state') >= Rank(m_state)
        /\ lastCall'.name = "runRestoration" =>
              m_state' = IF Len(lastCall'.arg) = 0 THEN "RECONCILED"
                                                    ELSE "RESTORED" ]_vars

\* runRestoration() found records in state RECONCILED: back to RESTORED
C10_Witness ==
    /\ enabledRet = "true"
    /\ lastCall.name = "runRestoration"
    /\ lastCall.from = "RECONCILED"
    /\ m_state = "RESTORED"

----------------------------------------------------------------------------
(* C11..C20 *)

\* C11: once isEnabled() has returned false, inProgress() is false and returns
\* false after any calls that follow, whatever state they put the FSM in.
C11_DisabledNeverInProgress ==
    enabledRet = "false" =>
        /\ ~inProgress
        /\ lastCall.name = "inProgress" => lastCall.ret = FALSE

\* inProgress() asked after isEnabled() returned false and later calls moved
\* the FSM to RESTORED with refresh records held
C11_Witness ==
    /\ enabledRet = "false"
    /\ lastCall.name = "inProgress"
    /\ lastCall.ret = FALSE
    /\ m_state = "RESTORED"
    /\ DOMAIN m_refreshMap # {}

\* C12: isReconciled() returns true exactly when the last state written was
\* RECONCILED (no state has been written while the store holds NONE), and the
\* cached state is the last state written to the store.
C12_ReconciledIffLastTransition ==
    /\ lastCall.name = "isReconciled" =>
          (lastCall.ret <=> (statusStore = "RECONCILED"))
    /\ statusStore # "NONE" => m_state = statusStore

\* C18: after an isEnabled() call, inProgress() is true exactly when that call
\* returned true and the cached state is not RECONCILED, whatever the
\* configuration is by now.
C18_InProgressFromCachedFlag ==
    enabledRet # "never" =>
        /\ inProgress <=> (enabledRet = "true" /\ m_state # "RECONCILED")
        /\ lastCall.name = "inProgress" =>
              (lastCall.ret <=> (enabledRet = "true" /\ lastCall.from # "RECONCILED"))

\* inProgress() returned true although the configuration was switched off
\* after isEnabled() had returned true
C18_Witness ==
    /\ enabledRet = "true"
    /\ warmStartConfig = FALSE
    /\ lastCall.name = "inProgress"
    /\ lastCall.ret = TRUE

HasSinkType(evs, types) == \E i \in 1..Len(evs) : evs[i].type \in types

\* C19: set and del are issued by reconcile() only and clear by isEnabled()
\* only; insertRefreshMap changes the refresh map entry of its record's key and
\* nothing else; runRestoration and the queries issue nothing to the table.
C19_Frame ==
    [][ /\ HasSinkType(issued', {"set", "del"}) => lastCall'.name = "reconcile"
        /\ HasSinkType(issued', {"clear"}) => lastCall'.name = "isEnabled"
        /\ lastCall'.name = "insertRefreshMap" =>
              /\ m_refreshMap'[lastCall'.arg.key] = lastCall'.arg
              /\ \A k \in Keys \ {lastCall'.arg.key} :
                    /\ (k \in DOMAIN m_refreshMap') <=> (k \in DOMAIN m_refreshMap)
                    /\ k \in DOMAIN m_refreshMap => m_refreshMap'[k] = m_refreshMap[k]
              /\ issued' = <<>>
              /\ UNCHANGED <<m_state, m_enabled, m_restorationVector, statusStore>>
        /\ lastCall'.name \in {"runRestoration", "getState", "isReconciled",
                                "inProgress", "getRestartTimer"} =>
              SinkOps(issued') = <<>>
        /\ lastCall'.name \in {"getState", "isReconciled", "inProgress",
                                "getRestartTimer"} =>
              UNCHANGED <<m_state, m_enabled, m_restorationVector, m_refreshMap,
                          statusStore>> ]_vars

\* a record inserted for one key while the map held another key's record
C19_Witness ==
    /\ lastCall.name = "insertRefreshMap"
    /\ m_state = "RESTORED"
    /\ m_restorationVector # <<>>
    /\ \E k \in DOMAIN m_refreshMap : k # lastCall.arg.key

\* C13 as stated: an enabled isEnabled() clears the table and then writes
\* INITIALIZED; a disabled one issues nothing.
C13_ClearThenInitialized ==
    lastCall.name = "isEnabled" =>
        IF lastCall.ret
        THEN issued = <<ClearOp, StateWrite("INITIALIZED")>>
        ELSE issued = <<>>

\* C13: an enabled isEnabled() writes INITIALIZED to the status store and then
\* clears the table, and caches the flag; a disabled one issues nothing and
\* leaves the cached state and the status store as they were.
C13_InitializedThenClear ==
    [][ lastCall'.name = "isEnabled" =>
            IF lastCall'.ret
            THEN /\ issued' = <<StateWrite("INITIALIZED"), ClearOp>>
                 /\ m_state' = "INITIALIZED"
                 /\ statusStore' = "INITIALIZED"
                 /\ m_enabled'
            ELSE /\ issued' = <<>>
                 /\ ~m_enabled'
                 /\ UNCHANGED <<m_state, statusStore>> ]_vars

\* an enabled isEnabled() that opened a new cycle after a reconciled one
C13_Witness ==
    /\ lastCall.name = "isEnabled"
    /\ lastCall.ret = TRUE
    /\ lastCall.from = "RECONCILED"
    /\ issued = <<StateWrite("INITIALIZED"), ClearOp>>
    /\ statusStore = "INITIALIZED"

\* C14: reconcile() called in RESTORED without a schema fault completes with
\* the refresh map and the snapshot empty and the state RECONCILED, so
\* isReconciled() is true and inProgress() false; with an empty refresh map it
\* issues one del per snapshot key.
C14_ReconcilePostcondition ==
    (lastCall.name = "reconcile" /\ lastCall.from = "RESTORED"
        /\ fault # SchemaFault) =>
        /\ fault = "none"
        /\ m_refreshMap = EmptyMap
        /\ m_restorationVector = <<>>
        /\ m_state = "RECONCILED"
        /\ statusStore = "RECONCILED"
        /\ issued[Len(issued)] = StateWrite("RECONCILED")
        /\ isReconciled
        /\ ~inProgress
        /\ runMap = EmptyMap =>
              SinkOps(issued) = [i \in 1..Len(runSnap) |-> DelOp(kfvKey(runSnap[i]))]

\* a completed run over a two-record snapshot and an empty refresh map
C14_Witness ==
    /\ ReconcileCompleted
    /\ lastCall.from = "RESTORED"
    /\ enabledRet = "true"
    /\ Len(runSnap) = 2
    /\ runMap = EmptyMap
    /\ Len(SinkOps(issued)) = 2

\* what the first loop decides for the first n records of the snapshot
RECURSIVE DecisionsBefore(_, _, _)
DecisionsBefore(snap, map, n) ==
    IF n = 0 THEN <<>>
    ELSE DecisionsBefore(snap, map, n - 1)
            \o DecisionOps(kfvKey(snap[n]), snap, map)

\* the comparison of snapshot record i with its refresh record fails the assertion
FaultsAt(snap, map, i) ==
    /\ kfvKey(snap[i]) \in DOMAIN map
    /\ kfvOp(map[kfvKey(snap[i])]) # DEL_COMMAND
    /\ compareAllFV(kfvFieldsValues(snap[i]),
                    kfvFieldsValues(map[kfvKey(snap[i])])) = "assert"

\* C20: when reconcile() faults on snapshot record i, what was decided for the
\* records before i has been issued, nothing has been issued for record i, a
\* later record or a refresh-only key, RECONCILED has not been written, the
\* state is RESTORED and the snapshot is kept.
C20_NotAtomicOnSchemaFault ==
    fault = SchemaFault =>
        \E i \in 1..Len(runSnap) :
            /\ FaultsAt(runSnap, runMap, i)
            /\ \A h \in 1..(i - 1) : ~FaultsAt(runSnap, runMap, h)
            /\ issued = DecisionsBefore(runSnap, runMap, i - 1)
            /\ \A j \in i..Len(runSnap) : OpsOn(issued, kfvKey(runSnap[j])) = <<>>
            /\ \A k \in (DOMAIN runMap) \ SnapKeys(runSnap) : OpsOn(issued, k) = <<>>
            /\ m_state = "RESTORED"
            /\ statusStore = "RESTORED"
            /\ m_restorationVector = runSnap

\* a fault on the second record after an operation was issued for the first
C20_Witness ==
    /\ fault = SchemaFault
    /\ Len(runSnap) = 2
    /\ FaultsAt(runSnap, runMap, 2)
    /\ Len(issued) = 1
    /\ enabledRet = "true"

\* for each key of the log, the last record logged for it
LastPerKey(log) ==
    [k \in {kfvKey(log[i]) : i \in 1..Len(log)} |->
        log[CHOOSE i \in 1..Len(log) :
                /\ kfvKey(log[i]) = k
                /\ \A j \in (i + 1)..Len(log) : kfvKey(log[j]) # k]]

\* C15: the refresh map holds for each key the last record inserted for it,
\* operation included, and a completed reconcile() issues for each key what the
\* snapshot and that last record decide.
C15_LastWriteWins ==
    [][ /\ fault' # SchemaFault => m_refreshMap' = LastPerKey(insertLog')
        /\ (lastCall'.name = "reconcile" /\ fault' = "none") =>
              \A k \in Keys :
                 OpsOn(issued', k) =
                    IF k \in SnapKeys(m_restorationVector)
                              \cup DOMAIN LastPerKey(insertLog)
                    THEN DecisionOps(k, m_restorationVector, LastPerKey(insertLog))
                    ELSE <<>> ]_vars

\* a SET replaced by a DELETE of the same key, with another key inserted in
\* between, while a snapshot waits for reconcile()
C15_Witness ==
    /\ Len(insertLog) = 3
    /\ kfvKey(insertLog[1]) = kfvKey(insertLog[3])
    /\ kfvKey(insertLog[2]) # kfvKey(insertLog[1])
    /\ kfvOp(insertLog[1]) = SET_COMMAND
    /\ kfvOp(insertLog[3]) = DEL_COMMAND
    /\ m_refreshMap[kfvKey(insertLog[1])] = insertLog[3]
    /\ m_state = "RESTORED"
    /\ m_restorationVector # <<>>
    /\ lastCall.name = "insertRefreshMap"

\* C16: when reconcile() runs its diff in a cycle, the refresh map holds no
\* record that was inserted during an earlier cycle.
C16_CycleScoped ==
    (lastCall.name = "reconcile" /\ lastCall.from = "RESTORED"
        /\ enabledRet = "true") =>
        staleKeys \cap DOMAIN runMap = {}

RefreshedOnly(v1, v2, i) == fvField(v2[i]) \notin FieldNames(v1)
\* the refreshed field at position i is matched by the restored record
Matched(v1, v2, i) ==
    /\ ~RefreshedOnly(v1, v2, i)
    /\ ~compareOneFV(ValueOf(v1, fvField(v2[i])), fvValue(v2[i]))

====
